---- MODULE Spec2Model ----
(***************************************************************************)
(* A model of src/bin/main.rs of rust-space-invaders: the Game aggregate   *)
(* (player, enemies, bullets, movement intent, image table), the Entity    *)
(* operations on axis-aligned rectangles, and the application loop of      *)
(* app() that dispatches key events, runs overdue updates and presents.    *)
(*                                                                         *)
(* Coordinates are f32 in the source.  Every value the program computes    *)
(* here is an integer far below 2^24 (start positions, sizes and steps are *)
(* integers, and the halved sizes 30/2 and 2/2 are integers), so f32       *)
(* arithmetic is exact and Int models it.                                  *)
(***************************************************************************)
EXTENDS Integers, Sequences, FiniteSets, TLC

VARIABLES
    player,           \* Game.player : Entity
    enemies,          \* Game.enemies : Vec<Entity>
    bullets,          \* Game.bullets : Vec<Entity>
    player_movement,  \* Game.player_movement : Movement
    images,           \* Game.images : the keys of the HashMap
    pc,               \* where app() is: "init", "load_enemy", "build" (in
                      \* game.init), "events", "updates", "draw" (in the
                      \* loop), "exit" (returned Err), "panic" (unwrap failed)
    ticks,            \* history: the number of update() calls so far
    call,             \* history: the last Game method call, with the state it started from
    present,          \* history: what gfx.present() returned in the last step
    input,            \* history: the Left/Right key events delivered so far
    probe             \* a direct call of Entity::hit_test: its arguments and result

vars ==
    <<player, enemies, bullets, player_movement, images, pc, ticks, call,
      present, input, probe>>

(***************************************************************************)
(* Bounds of the explored scenarios.                                       *)
(***************************************************************************)
\* The opening of a game: every key, a few updates.
MaxTicks == 3
MaxBullets == 2
\* A long run of the player along the bottom row, without firing.
RunTicks == 43
\* The late game: no key is touched until the enemy row has come down to the
\* player's row, then Space only.
LateStart == 499
LateTicks == 540
LateBullets == 2
\* A volley from below: no key is touched for VolleyStart updates, then Space
\* only, while the bullets start wholly below the enemy row.
VolleyStart == 478
VolleyTicks == 501
VolleyBullets == 2
\* The fall: no key is touched until the enemy row overlaps the player's row,
\* then Space only, and the updates go on until the row has left the screen.
FallStart == 536
FallTicks == 597
FallBullets == 1
\* The rectangles handed to hit_test directly.
MaxCoord == 3
MaxSide == 2

\* Settings.size of the window (its width).
ScreenWidth == 800

\* Settings.size of the window (its height).
ScreenHeight == 600

(***************************************************************************)
(* Entity                                                                  *)
(***************************************************************************)
\* Entity::new: the rectangle has its top-left corner at (x - w/2, y - h/2).
new(x, y, width, height, view) ==
    [x |-> x - width \div 2, y |-> y - height \div 2,
     w |-> width, h |-> height, view |-> view]

new_player(x, y, view) == new(x, y, 30, 30, view)

\* A new_enemy that takes (x, y) for the top-left corner, not the center.
new_enemy_corner(x, y, view) ==
    [x |-> x, y |-> y, w |-> 30, h |-> 30, view |-> view]

new_enemy(x, y, view) == new(x, y, 30, 30, view)

new_bullet(x, y, view) == new(x, y, 2, 30, view)

\* A hit_test that also counts rectangles which only touch (<= for <).
hit_test_touching(self, entity) ==
    /\ self.x <= entity.x + entity.w
    /\ self.x + self.w >= entity.x
    /\ self.y <= entity.y + entity.h
    /\ self.y + self.h >= entity.y

\* Entity::hit_test: quicksilver's Rectangle::overlaps_rectangle, which is
\*   self.x() < b.pos.x + b.size.x && self.x() + self.width() > b.pos.x
\*   && self.y() < b.pos.y + b.size.y && self.y() + self.height() > b.pos.y
hit_test(self, entity) ==
    /\ self.x < entity.x + entity.w
    /\ self.x + self.w > entity.x
    /\ self.y < entity.y + entity.h
    /\ self.y + self.h > entity.y

move_left(self, amount) == [self EXCEPT !.x = @ - amount]

move_right(self, amount) == [self EXCEPT !.x = @ + amount]

\* A move_down with the sign of move_up.
move_down_negated(self, amount) == [self EXCEPT !.y = @ - amount]

\* A move_up that goes three times as far as it is told.
move_up_leaping(self, amount) == [self EXCEPT !.y = @ - 3 * amount]

move_down(self, amount) == [self EXCEPT !.y = @ + amount]

move_up(self, amount) == [self EXCEPT !.y = @ - amount]

\* Entity::center, as the pair <<x, y>>
center(self) == <<self.x + self.w \div 2, self.y + self.h \div 2>>

set_view(self, view) == [self EXCEPT !.view = view]

(***************************************************************************)
(* Game                                                                    *)
(***************************************************************************)
\* The Game aggregate as one value: what a method reads and returns.
Game ==
    [player |-> player, enemies |-> enemies, bullets |-> bullets,
     player_movement |-> player_movement]

\* Vec::retain(|enemy| !bullet.hit_test(enemy))
retain(es, bullet) == SelectSeq(es, LAMBDA enemy : ~hit_test(bullet, enemy))

\* A bullet loop that tests the bullet where it was and moves it afterwards.
RECURSIVE bullet_loop_test_first(_, _, _)
bullet_loop_test_first(bs, es, i) ==
    IF i > Len(bs) THEN [bullets |-> bs, enemies |-> es]
    ELSE bullet_loop_test_first([bs EXCEPT ![i] = move_up(bs[i], 20)],
                                retain(es, bs[i]), i + 1)

\* A bullet loop in which a bullet that removes an enemy is removed with it.
RECURSIVE bullet_loop_consuming(_, _, _)
bullet_loop_consuming(bs, es, i) ==
    IF i > Len(bs) THEN [bullets |-> bs, enemies |-> es]
    ELSE LET bullet == move_up(bs[i], 20)
             left == retain(es, bullet)
         IN  IF Len(left) < Len(es)
             THEN bullet_loop_consuming(
                      SubSeq(bs, 1, i - 1) \o SubSeq(bs, i + 1, Len(bs)), left, i)
             ELSE bullet_loop_consuming([bs EXCEPT ![i] = bullet], left, i + 1)

\* A bullet loop in which every bullet tests the enemies as they were before
\* the loop, so that only the last bullet's removals are kept.
bullet_loop_stale(bs, es, i) ==
    LET moved == [k \in 1..Len(bs) |->
                     IF k >= i THEN move_up(bs[k], 20) ELSE bs[k]]
    IN  [bullets |-> moved,
         enemies |-> IF i > Len(bs) THEN es ELSE retain(es, moved[Len(bs)])]

\* The loop over the bullets of update(): bullet i moves up by 20, then the
\* enemies it overlaps are dropped from the enemies the earlier bullets left.
RECURSIVE bullet_loop(_, _, _)
bullet_loop(bs, es, i) ==
    IF i > Len(bs) THEN [bullets |-> bs, enemies |-> es]
    ELSE LET bullet == move_up(bs[i], 20)
         IN  bullet_loop([bs EXCEPT ![i] = bullet], retain(es, bullet), i + 1)

\* An update that keeps the player on the screen.
update_clamped(g) ==
    LET p == CASE g.player_movement = "Left" ->
                    IF g.player.x - 10 < 0 THEN [g.player EXCEPT !.x = 0]
                    ELSE move_left(g.player, 10)
               [] g.player_movement = "Right" ->
                    IF g.player.x + 10 > ScreenWidth - g.player.w
                    THEN [g.player EXCEPT !.x = ScreenWidth - g.player.w]
                    ELSE move_right(g.player, 10)
               [] OTHER -> g.player
        es == [i \in 1..Len(g.enemies) |-> move_down(g.enemies[i], 1)]
        r == bullet_loop(g.bullets, es, 1)
    IN  [player |-> p, enemies |-> r.enemies, bullets |-> r.bullets,
         player_movement |-> g.player_movement]

\* An update that drops the bullets which have left the screen at the top.
update_culling(g) ==
    LET p == CASE g.player_movement = "Left"  -> move_left(g.player, 10)
               [] g.player_movement = "Right" -> move_right(g.player, 10)
               [] OTHER -> g.player
        es == [i \in 1..Len(g.enemies) |-> move_down(g.enemies[i], 1)]
        r == bullet_loop(g.bullets, es, 1)
    IN  [player |-> p, enemies |-> r.enemies,
         bullets |-> SelectSeq(r.bullets, LAMBDA b : b.y + b.h > 0),
         player_movement |-> g.player_movement]

\* An update in which an enemy that runs into the player is removed.
update_landing(g) ==
    LET p == CASE g.player_movement = "Left"  -> move_left(g.player, 10)
               [] g.player_movement = "Right" -> move_right(g.player, 10)
               [] OTHER -> g.player
        es == [i \in 1..Len(g.enemies) |-> move_down(g.enemies[i], 1)]
        r == bullet_loop(g.bullets, es, 1)
    IN  [player |-> p, enemies |-> retain(r.enemies, p), bullets |-> r.bullets,
         player_movement |-> g.player_movement]

\* An update whose bullets stay in line with the player.
update_tracking(g) ==
    LET p == CASE g.player_movement = "Left"  -> move_left(g.player, 10)
               [] g.player_movement = "Right" -> move_right(g.player, 10)
               [] OTHER -> g.player
        es == [i \in 1..Len(g.enemies) |-> move_down(g.enemies[i], 1)]
        bs == [i \in 1..Len(g.bullets) |->
                  [g.bullets[i] EXCEPT !.x = center(p)[1] - g.bullets[i].w \div 2]]
        r == bullet_loop(bs, es, 1)
    IN  [player |-> p, enemies |-> r.enemies, bullets |-> r.bullets,
         player_movement |-> g.player_movement]

\* Game::update
update(g) ==
    LET p == CASE g.player_movement = "Left"  -> move_left(g.player, 10)
               [] g.player_movement = "Right" -> move_right(g.player, 10)
               [] OTHER -> g.player
        es == [i \in 1..Len(g.enemies) |-> move_down(g.enemies[i], 1)]
        r == bullet_loop(g.bullets, es, 1)
    IN  [player |-> p, enemies |-> r.enemies, bullets |-> r.bullets,
         player_movement |-> g.player_movement]

\* A handle_key that ignores every key-up: the intent stays until the next
\* key-down of a direction.
handle_key_sticky(g, key, down) ==
    CASE key \in {"Left", "Right"} ->
           IF down THEN [g EXCEPT !.player_movement = key] ELSE g
      [] key = "Space" ->
           LET c == center(g.player)
           IN  [g EXCEPT !.bullets =
                    Append(@, new_bullet(c[1], c[2], "Color(GREEN)"))]
      [] OTHER -> g

\* A handle_key whose key-up clears the intent whatever it is.
handle_key_release_any(g, key, down) ==
    CASE key \in {"Left", "Right"} ->
           [g EXCEPT !.player_movement = IF down THEN key ELSE "None"]
      [] key = "Space" ->
           LET c == center(g.player)
           IN  [g EXCEPT !.bullets =
                    Append(@, new_bullet(c[1], c[2], "Color(GREEN)"))]
      [] OTHER -> g

\* A handle_key whose key-down is ignored while another direction is held.
handle_key_first_wins(g, key, down) ==
    CASE key \in {"Left", "Right"} ->
           IF down
           THEN IF g.player_movement = "None"
                THEN [g EXCEPT !.player_movement = key]
                ELSE g
           ELSE IF g.player_movement = key
                THEN [g EXCEPT !.player_movement = "None"]
                ELSE g
      [] key = "Space" ->
           LET c == center(g.player)
           IN  [g EXCEPT !.bullets =
                    Append(@, new_bullet(c[1], c[2], "Color(GREEN)"))]
      [] OTHER -> g

\* A handle_key that fires from the player's top-left corner.
handle_key_corner(g, key, down) ==
    CASE key \in {"Left", "Right"} ->
           IF down THEN [g EXCEPT !.player_movement = key]
           ELSE IF g.player_movement = key
                THEN [g EXCEPT !.player_movement = "None"]
                ELSE g
      [] key = "Space" ->
           [g EXCEPT !.bullets =
               Append(@, new_bullet(g.player.x, g.player.y, "Color(GREEN)"))]
      [] OTHER -> g

\* Game::handle_key, for the event's key and its is_down()
handle_key(g, key, down) ==
    CASE key = "Left" ->
           IF down THEN [g EXCEPT !.player_movement = "Left"]
           ELSE IF g.player_movement = "Left"
                THEN [g EXCEPT !.player_movement = "None"]
                ELSE g
      [] key = "Right" ->
           IF down THEN [g EXCEPT !.player_movement = "Right"]
           ELSE IF g.player_movement = "Right"
                THEN [g EXCEPT !.player_movement = "None"]
                ELSE g
      [] key = "Space" ->
           LET c == center(g.player)
           IN  [g EXCEPT !.bullets =
                    Append(@, new_bullet(c[1], c[2], "Color(GREEN)"))]
      [] OTHER -> g

\* The keys an event can carry: the three the game reads and any other one.
Keys == {"Left", "Right", "Space", "Other"}

\* Game::new
NewGame ==
    [player |-> new_player(400, 550, "None"), enemies |-> <<>>,
     bullets |-> <<>>, player_movement |-> "None"]

\* No Game method has been called since the loop last moved on.
NoCall == [op |-> "none", key |-> "none", down |-> FALSE, pre |-> NewGame]

\* The keyboard before any event: no direction was pressed, none is held.
NoInput == [last |-> "None", released |-> FALSE, held |-> {}]

\* The keyboard's history after one more event: the direction of the latest
\* Left/Right key-down, whether a key-up of that direction came after it, and
\* the directions that are physically down.
delivered(inp, key, down) ==
    IF key \notin {"Left", "Right"} THEN inp
    ELSE IF down
         THEN [last |-> key, released |-> FALSE, held |-> inp.held \cup {key}]
         ELSE [last |-> inp.last,
               released |-> inp.released \/ key = inp.last,
               held |-> inp.held \ {key}]

\* No direct call of hit_test is under way.
NoProbe ==
    [a |-> NewGame.player, b |-> NewGame.player, called |-> FALSE,
     result |-> FALSE]

\* app() up to and including Game::new.
Init ==
    /\ player = NewGame.player
    /\ enemies = NewGame.enemies
    /\ bullets = NewGame.bullets
    /\ player_movement = NewGame.player_movement
    /\ images = {}
    /\ pc = "init"
    /\ ticks = 0
    /\ call = NoCall
    /\ present = "none"
    /\ input = NoInput
    /\ probe = NoProbe

\* A step of app() that calls neither gfx.present nor handle_key nor hit_test.
Silent == present' = "none" /\ UNCHANGED <<input, probe>>

\* An init whose future is not awaited to its end: app() enters its loop as
\* soon as the first image is there.
LoadPlayerImage_unawaited ==
    /\ pc = "init"
    /\ images' = images \cup {"player"}
    /\ pc' = "events"
    /\ call' = NoCall
    /\ Silent
    /\ UNCHANGED <<player, enemies, bullets, player_movement, ticks>>

\* Game::init, first await: Image::load of player.png is Ok and is inserted.
LoadPlayerImage ==
    /\ pc = "init"
    /\ images' = images \cup {"player"}
    /\ pc' = "load_enemy"
    /\ call' = NoCall
    /\ Silent
    /\ UNCHANGED <<player, enemies, bullets, player_movement, ticks>>

\* Game::init, second await: Image::load of enemy.png is Ok and is inserted.
LoadEnemyImage ==
    /\ pc = "load_enemy"
    /\ images' = images \cup {"enemy"}
    /\ pc' = "build"
    /\ call' = NoCall
    /\ Silent
    /\ UNCHANGED <<player, enemies, bullets, player_movement, ticks>>

\* Game::init: an Image::load is Err and its unwrap() panics.
LoadFail ==
    /\ pc \in {"init", "load_enemy"}
    /\ pc' = "panic"
    /\ call' = NoCall
    /\ Silent
    /\ UNCHANGED <<player, enemies, bullets, player_movement, images, ticks>>

\* The row of enemies that init pushes (for i in 1..10: the 9 values 1 to 9).
formation ==
    [i \in 1..9 |-> new_enemy(150 + i * 50, 20, "Image(enemy)")]

\* Game::init, the rest: the player gets its view and the row of enemies is
\* built; init returns and app() enters its loop.
GameInit ==
    /\ pc = "build"
    /\ player' = set_view(player, "Image(player)")
    /\ enemies' = enemies \o formation
    /\ pc' = "events"
    /\ call' = [op |-> "init", key |-> "none", down |-> FALSE, pre |-> Game]
    /\ Silent
    /\ UNCHANGED <<bullets, player_movement, images, ticks>>

\* The game state becomes g; what a Game method call leaves behind.
Becomes(g) ==
    /\ player' = g.player
    /\ enemies' = g.enemies
    /\ bullets' = g.bullets
    /\ player_movement' = g.player_movement

\* A key event that is taken out of the queue inside the update loop.
KeyEvent_any_phase(keys, first, maxBullets) ==
    /\ pc \in {"events", "updates"}
    /\ ticks >= first
    /\ \E key \in keys, down \in BOOLEAN :
          /\ key = "Space" => Len(bullets) < maxBullets
          /\ Becomes(handle_key(Game, key, down))
          /\ call' = [op |-> "handle_key", key |-> key, down |-> down,
                      pre |-> Game]
          /\ input' = delivered(input, key, down)
    /\ present' = "none"
    /\ UNCHANGED <<images, pc, ticks, probe>>

\* events.next_event() gave a keyboard event: game.handle_key(event).
\* Events arrive from tick `first` on, carry a key of `keys`, and Space is
\* taken while fewer than `maxBullets` bullets exist.
KeyEvent(keys, first, maxBullets) ==
    /\ pc = "events"
    /\ ticks >= first
    /\ \E key \in keys, down \in BOOLEAN :
          /\ key = "Space" => Len(bullets) < maxBullets
          /\ Becomes(handle_key(Game, key, down))
          /\ call' = [op |-> "handle_key", key |-> key, down |-> down,
                      pre |-> Game]
          /\ input' = delivered(input, key, down)
    /\ present' = "none"
    /\ UNCHANGED <<images, pc, ticks, probe>>

\* events.next_event() gave None: the event loop of this iteration ends.
EventsDone ==
    /\ pc = "events"
    /\ pc' = "updates"
    /\ call' = NoCall
    /\ Silent
    /\ UNCHANGED <<player, enemies, bullets, player_movement, images, ticks>>

\* update_timer.tick() gave true: game.update().
Tick(maxTicks) ==
    /\ pc = "updates"
    /\ ticks < maxTicks
    /\ Becomes(update(Game))
    /\ ticks' = ticks + 1
    /\ call' = [op |-> "update", key |-> "none", down |-> FALSE, pre |-> Game]
    /\ Silent
    /\ UNCHANGED <<images, pc>>

\* update_timer.tick() gave false: the update loop of this iteration ends.
UpdatesDone ==
    /\ pc = "updates"
    /\ pc' = "draw"
    /\ call' = NoCall
    /\ Silent
    /\ UNCHANGED <<player, enemies, bullets, player_movement, images, ticks>>

\* draw_timer.exhaust() gave None: nothing is drawn in this iteration.
SkipDraw ==
    /\ pc = "draw"
    /\ pc' = "events"
    /\ call' = NoCall
    /\ Silent
    /\ UNCHANGED <<player, enemies, bullets, player_movement, images, ticks>>

\* draw_timer.exhaust() gave Some: clear, game.render() (which reads the game
\* and changes nothing of it), and gfx.present() is Ok.
Present ==
    /\ pc = "draw"
    /\ pc' = "events"
    /\ call' = [op |-> "render", key |-> "none", down |-> FALSE, pre |-> Game]
    /\ present' = "Ok"
    /\ UNCHANGED <<player, enemies, bullets, player_movement, images, ticks,
                   input, probe>>

\* A failed present that is swallowed: the loop goes on with the next frame.
PresentFail_ignored ==
    /\ pc = "draw"
    /\ pc' = "events"
    /\ call' = [op |-> "render", key |-> "none", down |-> FALSE, pre |-> Game]
    /\ present' = "Err"
    /\ UNCHANGED <<player, enemies, bullets, player_movement, images, ticks,
                   input, probe>>

\* gfx.present() is Err: the ? returns the error from app().
PresentFail ==
    /\ pc = "draw"
    /\ pc' = "exit"
    /\ call' = [op |-> "render", key |-> "none", down |-> FALSE, pre |-> Game]
    /\ present' = "Err"
    /\ UNCHANGED <<player, enemies, bullets, player_movement, images, ticks,
                   input, probe>>

\* Game::init, step by step.
Load == LoadPlayerImage \/ LoadEnemyImage \/ LoadFail \/ GameInit

\* One iteration of the loop of app(), but for its calls of handle_key and
\* update.
Frame == EventsDone \/ UpdatesDone \/ SkipDraw \/ Present \/ PresentFail

(***************************************************************************)
(* Specifications                                                          *)
(***************************************************************************)
\* The opening: every key from the start, MaxTicks updates.
HandleKey == KeyEvent(Keys, 0, MaxBullets)

Update == Tick(MaxTicks)

Next == Load \/ HandleKey \/ Update \/ Frame

Spec == Init /\ [][Next]_vars

\* The long run: Left, Right and other keys, no firing.
RunKey == KeyEvent({"Left", "Right", "Other"}, 0, 0)

RunUpdate == Tick(RunTicks)

NextRun == Load \/ RunKey \/ RunUpdate \/ Frame

SpecRun == Init /\ [][NextRun]_vars

\* The late game: the keyboard is idle for LateStart updates, then Space.
LateKey == KeyEvent({"Space"}, LateStart, LateBullets)

LateUpdate == Tick(LateTicks)

NextLate == Load \/ LateKey \/ LateUpdate \/ Frame

SpecLate == Init /\ [][NextLate]_vars

\* A volley from below: the keyboard is idle for VolleyStart updates, then
\* Space, while the enemy row is still above the bullets' starting height.
VolleyKey == KeyEvent({"Space"}, VolleyStart, VolleyBullets)

VolleyUpdate == Tick(VolleyTicks)

NextVolley == Load \/ VolleyKey \/ VolleyUpdate \/ Frame

SpecVolley == Init /\ [][NextVolley]_vars

\* The fall: the keyboard is idle until the enemy row overlaps the player's
\* row, then Space, and the updates go on until the row is below the screen.
FallKey == KeyEvent({"Space"}, FallStart, FallBullets)

FallUpdate == Tick(FallTicks)

NextFall == Load \/ FallKey \/ FallUpdate \/ Frame

SpecFall == Init /\ [][NextFall]_vars

\* Entity::hit_test on its own: two rectangles with corners in
\* 0..MaxCoord and sides in 1..MaxSide, and one call.
Rects ==
    {[x |-> x, y |-> y, w |-> w, h |-> h, view |-> "None"] :
        x \in 0..MaxCoord, y \in 0..MaxCoord, w \in 1..MaxSide, h \in 1..MaxSide}

InitHit ==
    /\ player = NewGame.player
    /\ enemies = NewGame.enemies
    /\ bullets = NewGame.bullets
    /\ player_movement = NewGame.player_movement
    /\ images = {}
    /\ pc = "init"
    /\ ticks = 0
    /\ call = NoCall
    /\ present = "none"
    /\ input = NoInput
    /\ probe \in {[a |-> a, b |-> b, called |-> FALSE, result |-> FALSE] :
                     a \in Rects, b \in Rects}

\* probe.a.hit_test(&probe.b)
HitTest ==
    /\ ~probe.called
    /\ probe' = [probe EXCEPT !.called = TRUE,
                              !.result = hit_test(probe.a, probe.b)]
    /\ UNCHANGED <<player, enemies, bullets, player_movement, images, pc,
                   ticks, call, present, input>>

NextHit == HitTest

SpecHit == InitHit /\ [][NextHit]_vars

(***************************************************************************)
(* Vocabulary of the properties                                            *)
(***************************************************************************)
\* The last step was handle_key with this key and this is_down().
Handled(key, down) ==
    call.op = "handle_key" /\ call.key = key /\ call.down = down

\* The last step was update().
Updated == call.op = "update"

\* Two axis-aligned rectangles share positive area.
SharePositiveArea(a, b) ==
    /\ a.x < b.x + b.w /\ b.x < a.x + a.w
    /\ a.y < b.y + b.h /\ b.y < a.y + a.h

\* The rectangle e, displaced by dy downwards.
Lowered(e, dy) == [e EXCEPT !.y = @ + dy]

\* The enemies never change column and no two share one, so the column names
\* the enemy: enemy e of an earlier state is still in the collection es.
StillIn(e, es) == \E k \in 1..Len(es) : es[k].x = e.x

(***************************************************************************)
(* Movement intent                                                         *)
(***************************************************************************)
\* C1: a key-up event for Left or Right sets the intent to None if and only
\* if the intent was that direction; otherwise the intent is unchanged.
C1_KeyUpClearsOnlyItsOwnDirection ==
    \A d \in {"Left", "Right"} :
        Handled(d, FALSE) =>
            player_movement =
                IF call.pre.player_movement = d THEN "None"
                ELSE call.pre.player_movement

\* Left was pressed and is now released: the intent went from Left to None.
C1_Witness ==
    /\ Handled("Left", FALSE)
    /\ call.pre.player_movement = "Left"
    /\ player_movement = "None"

\* C2: a key-down event for Left or Right sets the intent to that direction
\* from every prior intent; the intent is None before init, and only
\* handle_key on a Left or Right key changes it.
C2_KeyDownSetsDirection ==
    /\ [](pc = "init" => player_movement = "None")
    /\ [](\A d \in {"Left", "Right"} : Handled(d, TRUE) => player_movement = d)
    /\ [][player_movement' # player_movement =>
            call'.op = "handle_key" /\ call'.key \in {"Left", "Right"}]_vars

\* Right is pressed while Left is still held: the intent is Right.
C2_Witness ==
    /\ Handled("Right", TRUE)
    /\ call.pre.player_movement = "Left"
    /\ player_movement = "Right"

(***************************************************************************)
(* update(): the moves                                                     *)
(***************************************************************************)
\* C3: update() moves the player by exactly -10 (Left), +10 (Right) or 0
\* (None) in x, wherever the player is: nothing keeps it on the screen.
C3_PlayerMovesByTen ==
    Updated =>
        /\ player.x = call.pre.player.x
                + (CASE call.pre.player_movement = "Left" -> -10
                     [] call.pre.player_movement = "Right" -> 10
                     [] OTHER -> 0)
        /\ player.y = call.pre.player.y

\* An update has moved the player wholly off the left edge of the screen.
C3_Witness ==
    /\ Updated
    /\ call.pre.player_movement = "Left"
    /\ player.x + player.w < 0
    /\ player.x = call.pre.player.x - 10

\* C4: after update() every enemy of the collection is an enemy of the state
\* before, one unit lower and in the same column, whatever bullets exist.
C4_EnemiesMoveDownByOne ==
    Updated =>
        \A k \in 1..Len(enemies) :
            \E j \in 1..Len(call.pre.enemies) :
                /\ enemies[k].x = call.pre.enemies[j].x
                /\ enemies[k].y = call.pre.enemies[j].y + 1

\* An update with a bullet present removed an enemy and lowered the others.
C4_Witness ==
    /\ Updated
    /\ bullets # <<>>
    /\ Len(enemies) < Len(call.pre.enemies)
    /\ enemies # <<>>
    /\ enemies[1].y = call.pre.enemies[1].y + 1

(***************************************************************************)
(* update(): the removal of enemies                                        *)
(***************************************************************************)
\* Bullet i and enemy j of the state before the update overlap there.
OverlapBefore(i, j) ==
    SharePositiveArea(call.pre.bullets[i], call.pre.enemies[j])

\* Bullet i and enemy j of the state before the update overlap once the
\* update has moved them: the bullet up by 20, the enemy down by 1.
OverlapMoved(i, j) ==
    SharePositiveArea(Lowered(call.pre.bullets[i], -20),
                      Lowered(call.pre.enemies[j], 1))

\* C5 as stated: an enemy that a bullet overlaps before update() is absent
\* from the enemy collection after update().
C5_OverlapBeforeRemoves ==
    Updated =>
        \A j \in 1..Len(call.pre.enemies) :
            (\E i \in 1..Len(call.pre.bullets) : OverlapBefore(i, j))
                => ~StillIn(call.pre.enemies[j], enemies)

\* C5 amended: an enemy that a bullet overlaps after the moves of update()
\* (bullet up by 20, enemy down by 1) is absent from the enemy collection
\* after update().
C5_OverlapMovedRemoves ==
    Updated =>
        \A j \in 1..Len(call.pre.enemies) :
            (\E i \in 1..Len(call.pre.bullets) : OverlapMoved(i, j))
                => ~StillIn(call.pre.enemies[j], enemies)

\* A bullet overlapped an enemy before the update and still did after the
\* moves, and the update removed that enemy.
C5_Witness ==
    /\ Updated
    /\ \E j \in 1..Len(call.pre.enemies), i \in 1..Len(call.pre.bullets) :
          /\ OverlapBefore(i, j)
          /\ OverlapMoved(i, j)
          /\ ~StillIn(call.pre.enemies[j], enemies)

\* C6 as stated: an enemy that no bullet overlaps before update() is still
\* in the enemy collection after update().
C6_NoOverlapBeforeKeeps ==
    Updated =>
        \A j \in 1..Len(call.pre.enemies) :
            (\A i \in 1..Len(call.pre.bullets) : ~OverlapBefore(i, j))
                => StillIn(call.pre.enemies[j], enemies)

\* C6 amended: an enemy that no bullet overlaps after the moves of update()
\* (bullet up by 20, enemy down by 1) is still in the enemy collection after
\* update().
C6_NoOverlapMovedKeeps ==
    Updated =>
        \A j \in 1..Len(call.pre.enemies) :
            (\A i \in 1..Len(call.pre.bullets) : ~OverlapMoved(i, j))
                => StillIn(call.pre.enemies[j], enemies)

\* A bullet overlapped an enemy before the update, the moves took them apart
\* (they end edge to edge), and the enemy is still there.
C6_Witness ==
    /\ Updated
    /\ \E j \in 1..Len(call.pre.enemies) :
          /\ \E i \in 1..Len(call.pre.bullets) : OverlapBefore(i, j)
          /\ \A i \in 1..Len(call.pre.bullets) : ~OverlapMoved(i, j)
          /\ StillIn(call.pre.enemies[j], enemies)

(***************************************************************************)
(* Bullets                                                                 *)
(***************************************************************************)
\* C7: a Space key-down appends exactly one bullet, 2 wide and 30 high, with
\* its center at the player's center; the earlier bullets stay as they were,
\* in the same order.
C7_SpaceDownAppendsOneBullet ==
    Handled("Space", TRUE) =>
        /\ Len(bullets) = Len(call.pre.bullets) + 1
        /\ SubSeq(bullets, 1, Len(call.pre.bullets)) = call.pre.bullets
        /\ LET b == bullets[Len(bullets)]
           IN  /\ b.w = 2 /\ b.h = 30
               /\ 2 * b.x + b.w = 2 * player.x + player.w
               /\ 2 * b.y + b.h = 2 * player.y + player.h

\* A second bullet has been fired after the player moved: it is appended
\* behind the first, which is where it was.
C7_Witness ==
    /\ Handled("Space", TRUE)
    /\ Len(call.pre.bullets) = 1
    /\ Len(bullets) = 2
    /\ bullets[1] = call.pre.bullets[1]
    /\ bullets[2].x # bullets[1].x
    /\ bullets[2].y # bullets[1].y

\* C8: only a Space key-down spawns a bullet: every other key event, a Space
\* key-up among them, leaves the bullet collection unchanged.
C8_OnlySpaceDownSpawns ==
    \A key \in Keys, down \in BOOLEAN :
        (Handled(key, down) /\ ~(key = "Space" /\ down))
            => bullets = call.pre.bullets

\* C9: the number of bullets never decreases, update() leaves it unchanged,
\* and a Space key-down raises it by one.
C9_BulletsNeverRemoved ==
    [][/\ Len(bullets') >= Len(bullets)
       /\ call'.op = "update" => Len(bullets') = Len(bullets)
       /\ (call'.op = "handle_key" /\ call'.key = "Space" /\ call'.down)
             => Len(bullets') = Len(bullets) + 1]_vars

\* An update has kept both bullets although one of them has left the screen
\* at the top and an enemy has been shot.
C9_Witness ==
    /\ Updated
    /\ Len(bullets) = 2
    /\ Len(call.pre.bullets) = 2
    /\ \E i \in 1..Len(bullets) : bullets[i].y + bullets[i].h < 0
    /\ Len(enemies) < 9

\* Bullet i of the state before the update is the cause of a removal: it
\* overlaps, after the moves, an enemy that the update removed.
Removes(i) ==
    \E j \in 1..Len(call.pre.enemies) :
        /\ OverlapMoved(i, j)
        /\ ~StillIn(call.pre.enemies[j], enemies)

\* C10 as stated: after an update() in which a bullet's overlap removes an
\* enemy, that bullet is no longer in the bullet collection.
C10_HittingBulletDestroyed ==
    Updated =>
        \A i \in 1..Len(call.pre.bullets) :
            Removes(i) =>
                \A k \in 1..Len(bullets) :
                    bullets[k] # Lowered(call.pre.bullets[i], -20)

\* C10 amended: after an update() in which a bullet's overlap removes an
\* enemy, that bullet is still in the bullet collection, at its place and
\* moved up by 20.
C10_HittingBulletKept ==
    Updated =>
        /\ Len(bullets) = Len(call.pre.bullets)
        /\ \A i \in 1..Len(call.pre.bullets) :
              Removes(i) => bullets[i] = Lowered(call.pre.bullets[i], -20)

\* The first of two bullets has removed an enemy in this update and is still
\* the first bullet.
C10_Witness ==
    /\ Updated
    /\ Len(call.pre.bullets) = 2
    /\ Removes(1)
    /\ bullets[1] = Lowered(call.pre.bullets[1], -20)

(***************************************************************************)
(* init()                                                                  *)
(***************************************************************************)
\* init() has just returned.
Initialized == call.op = "init"

\* C11 as stated, a position being the top-left corner of the rectangle:
\* after init() there are exactly 9 enemies, the i-th at x-position
\* 150 + i*50 and y-position 20, each 30 by 30; before init() there is none,
\* and no step after init() adds one.
C11_EnemyRowAtCorner ==
    /\ [](pc \in {"init", "load_enemy", "build"} => enemies = <<>>)
    /\ [](Initialized =>
            /\ Len(enemies) = 9
            /\ \A i \in 1..9 :
                  /\ enemies[i].x = 150 + i * 50 /\ enemies[i].y = 20
                  /\ enemies[i].w = 30 /\ enemies[i].h = 30)
    /\ [][call'.op # "init" => Len(enemies') <= Len(enemies)]_vars

\* C11 amended: after init() there are exactly 9 enemies, the i-th with its
\* center at (150 + i*50, 20), that is with its top-left corner at
\* (135 + i*50, 5), each 30 by 30; before init() there is none, and no step
\* after init() adds one.
C11_EnemyRowCentered ==
    /\ [](pc \in {"init", "load_enemy", "build"} => enemies = <<>>)
    /\ [](Initialized =>
            /\ Len(enemies) = 9
            /\ \A i \in 1..9 :
                  /\ 2 * enemies[i].x + enemies[i].w = 2 * (150 + i * 50)
                  /\ 2 * enemies[i].y + enemies[i].h = 2 * 20
                  /\ enemies[i].x = 135 + i * 50 /\ enemies[i].y = 5
                  /\ enemies[i].w = 30 /\ enemies[i].h = 30)
    /\ [][call'.op # "init" => Len(enemies') <= Len(enemies)]_vars

\* init() has built the row out of an empty collection: 9 enemies, the first
\* with its corner at x = 185 and the last at x = 585.
C11_Witness ==
    /\ Initialized
    /\ call.pre.enemies = <<>>
    /\ Len(enemies) = 9
    /\ enemies[1].x = 185
    /\ enemies[9].x = 585

(***************************************************************************)
(* hit_test                                                                *)
(***************************************************************************)
\* The length that the intervals [lo1, lo1 + len1] and [lo2, lo2 + len2] have
\* in common.
CommonLength(lo1, len1, lo2, len2) ==
    LET lo == IF lo1 > lo2 THEN lo1 ELSE lo2
        hi == IF lo1 + len1 < lo2 + len2 THEN lo1 + len1 ELSE lo2 + len2
    IN  IF hi > lo THEN hi - lo ELSE 0

\* The area that the rectangles a and b have in common.
CommonArea(a, b) ==
    CommonLength(a.x, a.w, b.x, b.w) * CommonLength(a.y, a.h, b.y, b.h)

\* C12: hit_test(a, b) is true exactly when the rectangles a and b (of
\* positive width and height) have a common area greater than 0, so it is
\* false for disjoint rectangles and for rectangles that only touch along an
\* edge or at a corner; and hit_test(b, a) gives the same.
C12_HitTestIsPositiveArea ==
    probe.called =>
        /\ probe.result = (CommonArea(probe.a, probe.b) > 0)
        /\ probe.result = hit_test(probe.b, probe.a)

\* hit_test has returned false for two rectangles that touch along a
\* vertical edge: a ends where b begins, and they share a stretch of it.
C12_Witness ==
    /\ probe.called
    /\ probe.a.x + probe.a.w = probe.b.x
    /\ CommonLength(probe.a.y, probe.a.h, probe.b.y, probe.b.h) > 0
    /\ probe.result = FALSE

(***************************************************************************)
(* app()                                                                   *)
(***************************************************************************)
\* app() is in its loop, or has left it.
InLoop == pc \in {"events", "updates", "draw", "exit"}

\* The step that ends is a handle_key, an update, a render or a present.
LoopWork(c, p) == c.op \in {"handle_key", "update", "render"} \/ p # "none"

\* C13: init() completes before the loop begins: the loop is entered only by
\* the return of init(), with both images loaded, the player's view assigned
\* and the 9 enemies built, and no handle_key, update, render or present
\* happens outside the loop.
C13_InitBeforeLoop ==
    /\ [](InLoop =>
            /\ images = {"player", "enemy"}
            /\ player.view = "Image(player)")
    /\ [](LoopWork(call, present) => InLoop)
    /\ [][LoopWork(call', present') => pc \in {"events", "updates", "draw"}]_vars
    /\ [][(~InLoop /\ InLoop') =>
            /\ call'.op = "init"
            /\ images' = {"player", "enemy"}
            /\ player'.view = "Image(player)"
            /\ Len(enemies') = 9
            /\ \A i \in 1..9 : enemies'[i].view = "Image(enemy)"]_vars

\* The first frame is presented: nothing has been updated yet, both images
\* are loaded, the player has its image and the 9 enemies are there.
C13_Witness ==
    /\ call.op = "render"
    /\ present = "Ok"
    /\ ticks = 0
    /\ images = {"player", "enemy"}
    /\ player.view = "Image(player)"
    /\ Len(enemies) = 9

\* C14: the loop is left only by a failed present: a present that fails
\* takes app() to its exit, nothing takes it there but a failed present,
\* nothing happens after the exit, and at every other place of the loop a
\* next step is possible whatever the game state is.
C14_ExitOnlyByPresentFailure ==
    /\ [][present' = "Err" => pc' = "exit"]_vars
    /\ [][pc' = "exit" => (pc = "draw" /\ present' = "Err")]_vars
    /\ [][pc # "exit"]_vars
    /\ [](pc \in {"events", "updates", "draw"} => ENABLED Frame)

\* A present has failed in the middle of a game, with a bullet in flight, and
\* app() has returned.
C14_Witness ==
    /\ pc = "exit"
    /\ present = "Err"
    /\ call.op = "render"
    /\ ticks > 0
    /\ bullets # <<>>

\* C15: the steps of an iteration come in a fixed order.  handle_key happens
\* only while the events are drained, update only in the update loop that
\* follows, and render only after that loop, in one step with its present;
\* the loop goes from the events to the updates, from there to the drawing,
\* and from there to the events of the next iteration or out of app().  So
\* no key is handled between two updates of an iteration, there is at most
\* one render and present per iteration, and no update between them.
C15_IterationOrder ==
    /\ [][call'.op = "handle_key" => (pc = "events" /\ pc' = "events")]_vars
    /\ [][call'.op = "update" => (pc = "updates" /\ pc' = "updates")]_vars
    /\ [][(call'.op = "render" \/ present' # "none") =>
            /\ pc = "draw" /\ pc' \in {"events", "exit"}
            /\ call'.op = "render" /\ present' # "none"
            /\ Game' = Game]_vars
    /\ [][(InLoop /\ pc' # pc) =>
            <<pc, pc'>> \in {<<"events", "updates">>, <<"updates", "draw">>,
                             <<"draw", "events">>, <<"draw", "exit">>}]_vars

\* A frame is presented at the end of an iteration, after keys were handled
\* (a direction is held, a bullet is out) and updates were run.
C15_Witness ==
    /\ call.op = "render"
    /\ present = "Ok"
    /\ pc = "events"
    /\ ticks >= 2
    /\ player_movement # "None"
    /\ bullets # <<>>
    /\ player.x # NewGame.player.x

\* The game before the latest call, with its bullets in the order perm.
Reordered(perm) ==
    [call.pre EXCEPT !.bullets =
        [k \in 1..Len(call.pre.bullets) |-> call.pre.bullets[perm[k]]]]

\* The enemies before the latest call, each moved down by 1, that share a
\* positive area with none of the bullets before it, each moved up by 20.
SinglePass ==
    SelectSeq([j \in 1..Len(call.pre.enemies) |-> Lowered(call.pre.enemies[j], 1)],
              LAMBDA e : \A i \in 1..Len(call.pre.bullets) :
                  ~SharePositiveArea(Lowered(call.pre.bullets[i], -20), e))

\* C16: the removal passes of update(), one per bullet, amount to a single
\* pass over all bullets: after an update the enemies are exactly, in their
\* order, the moved enemies that overlap no moved bullet, and an update of
\* the same game with its bullets in any other order leaves the same enemies.
C16_RemovalIsSinglePass ==
    Updated =>
        /\ enemies = SinglePass
        /\ \A perm \in Permutations(1..Len(call.pre.bullets)) :
               update(Reordered(perm)).enemies = enemies

\* An update with two bullets of which the first overlaps an enemy after the
\* moves and the second does not: the enemy is gone.
C16_Witness ==
    /\ Updated
    /\ Len(call.pre.bullets) = 2
    /\ \E j \in 1..Len(call.pre.enemies) :
          /\ OverlapMoved(1, j)
          /\ ~OverlapMoved(2, j)
          /\ ~StillIn(call.pre.enemies[j], enemies)

\* The enemy e of the current state is no longer among the enemies of the
\* next state.
Leaves(e) == \A k \in 1..Len(enemies') : enemies'[k].x # e.x

\* C17: an enemy leaves the collection only in an update in which, after the
\* moves of that update, it shares a positive area with some bullet; every
\* other enemy stays, wherever it is on or below the screen and whether or not
\* it overlaps the player; handle_key leaves the enemies as they are; and
\* after init no step adds an enemy.
C17_EnemiesLeaveOnlyWhenHit ==
    /\ [][\A j \in 1..Len(enemies) :
            Leaves(enemies[j]) =>
                /\ call'.op = "update"
                /\ \E i \in 1..Len(bullets) :
                       SharePositiveArea(Lowered(bullets[i], -20),
                                         Lowered(enemies[j], 1))]_vars
    /\ [][call'.op = "handle_key" => enemies' = enemies]_vars
    /\ [][call'.op # "init" =>
            /\ Len(enemies') <= Len(enemies)
            /\ \A k \in 1..Len(enemies') : StillIn(enemies'[k], enemies)]_vars

\* After a bullet has removed one enemy, the eight others have gone through
\* the player's row and out of the screen at the bottom, and are still there
\* after the latest update.
C17_Witness ==
    /\ Updated
    /\ Len(call.pre.enemies) = 8
    /\ Len(enemies) = 8
    /\ bullets # <<>>
    /\ \A k \in 1..Len(enemies) : enemies[k].y > ScreenHeight

\* The x-positions of a sequence of entities, in its order.
Columns(es) == [k \in 1..Len(es) |-> es[k].x]

\* C18: every entity keeps the size it was built with (player and enemies
\* 30x30, bullets 2x30), and positions change only by the moves of update():
\* the player's y never changes and its x changes only in an update, by 10;
\* the enemies that stay keep their x and their order, and their y changes
\* only in an update, by 1; a bullet keeps its x from its spawn on, and its y
\* changes only in an update, by 20; handle_key changes no position of the
\* player, of an enemy or of a bullet that exists already.
C18_SizesFixedMovesOnlyInUpdate ==
    /\ [](/\ player.w = 30 /\ player.h = 30
          /\ \A k \in 1..Len(enemies) : enemies[k].w = 30 /\ enemies[k].h = 30
          /\ \A k \in 1..Len(bullets) : bullets[k].w = 2 /\ bullets[k].h = 30)
    /\ [][/\ player'.y = player.y
          /\ player'.x # player.x =>
                 /\ call'.op = "update"
                 /\ player'.x \in {player.x - 10, player.x + 10}]_vars
    /\ [][call'.op # "init" =>
            /\ Columns(enemies') =
                   SelectSeq(Columns(enemies),
                             LAMBDA x : \E k \in 1..Len(enemies') :
                                            enemies'[k].x = x)
            /\ \A k \in 1..Len(enemies') : \E j \in 1..Len(enemies) :
                   /\ enemies'[k].x = enemies[j].x
                   /\ enemies'[k].y =
                          IF call'.op = "update" THEN enemies[j].y + 1
                          ELSE enemies[j].y]_vars
    /\ [][/\ Len(bullets') >= Len(bullets)
          /\ \A i \in 1..Len(bullets) :
                 /\ bullets'[i].x = bullets[i].x
                 /\ bullets'[i].y =
                        IF call'.op = "update" THEN bullets[i].y - 20
                        ELSE bullets[i].y]_vars
    /\ [][call'.op = "handle_key" =>
            /\ player'.x = player.x /\ player'.y = player.y
            /\ enemies' = enemies
            /\ SubSeq(bullets', 1, Len(bullets)) = bullets]_vars

\* A bullet was fired, the player has moved away from where it fired, and an
\* update has moved both: the bullet is still in the column it was fired in.
C18_Witness ==
    /\ Updated
    /\ player.x # call.pre.player.x
    /\ \E i \in 1..Len(call.pre.bullets) :
          /\ bullets[i].x = call.pre.bullets[i].x
          /\ bullets[i].x # center(player)[1] - 1
          /\ bullets[i].y = call.pre.bullets[i].y - 20

\* The columns of the enemy row: an enemy is known by the x it was built at.
EnemyColumns == {formation[k].x : k \in 1..Len(formation)}

\* The x-ranges of a and b overlap.
XOverlap(a, b) == a.x < b.x + b.w /\ b.x < a.x + a.w

\* Bullet i exists, the enemy of column c is still in the collection, their
\* x-ranges overlap and the bullet's rectangle is entirely below the enemy's.
BulletBelow(i, c) ==
    /\ i <= Len(bullets)
    /\ \E k \in 1..Len(enemies) :
          /\ enemies[k].x = c
          /\ XOverlap(bullets[i], enemies[k])
          /\ bullets[i].y >= enemies[k].y + enemies[k].h

\* The same, with the bullet's rectangle entirely above the enemy's.
BulletAbove(i, c) ==
    /\ i <= Len(bullets)
    /\ \E k \in 1..Len(enemies) :
          /\ enemies[k].x = c
          /\ XOverlap(bullets[i], enemies[k])
          /\ bullets[i].y + bullets[i].h <= enemies[k].y

\* C19: no bullet passes through an enemy.  For every bullet: once it is
\* entirely below an enemy whose x-range overlaps its own, there is no later
\* state in which it is entirely above an enemy whose x-range overlaps its
\* own and which is still in the collection.  (The enemy below which it was
\* is one of these, so this covers every pair of a bullet and an enemy.)
C19_NoBulletPassesThrough ==
    \A i \in 1..VolleyBullets :
        []((\E c \in EnemyColumns : BulletBelow(i, c))
              => [](\A c \in EnemyColumns : ~BulletAbove(i, c)))

\* A bullet that was entirely below an enemy before the latest update has
\* removed that enemy in it.
C19_Witness ==
    /\ Updated
    /\ \E i \in 1..Len(call.pre.bullets), j \in 1..Len(call.pre.enemies) :
          /\ XOverlap(call.pre.bullets[i], call.pre.enemies[j])
          /\ call.pre.bullets[i].y >=
                 call.pre.enemies[j].y + call.pre.enemies[j].h
          /\ OverlapMoved(i, j)
          /\ ~StillIn(call.pre.enemies[j], enemies)

\* C20: after every sequence of key events the movement intent is the
\* direction of the latest Left/Right key-down if no key-up of that direction
\* has come since, and None otherwise (also when the other direction is still
\* held down); and an update that finds the intent None leaves the player
\* where it is.
C20_IntentFollowsLatestKeyDown ==
    /\ player_movement =
           IF input.last # "None" /\ ~input.released THEN input.last
           ELSE "None"
    /\ (Updated /\ call.pre.player_movement = "None") => player = call.pre.player

\* After Left-down, Right-down, Right-up: Left is still held, the intent is
\* None, and the latest update has not moved the player.
C20_Witness ==
    /\ Updated
    /\ input.last = "Right"
    /\ input.released
    /\ input.held = {"Left"}
    /\ player_movement = "None"
    /\ player.x = call.pre.player.x

====
